---- MODULE Spec2Model ----
(***************************************************************************)
(* A model of the CAN telemetry application: the listener registry         *)
(* (CustomNotifier), its timestamp-driven replay (simulate), the bus       *)
(* managers and the application thread (CANTelemetryApp.run).              *)
(*                                                                         *)
(* Threads are named by strings.  A thread that is inside add_listener,    *)
(* remove_listener or notify_listeners has its position in rpc; every      *)
(* statement that can be interleaved with another thread is one action.    *)
(* The clock (time.time) is the natural number `now`; it never goes back.  *)
(***************************************************************************)
EXTENDS Integers, Sequences, FiniteSets, TLC

\* ---------------------------------------------------------------- bounds
MaxListeners == 2    \* longest listener list the clients build
MaxInit == 1         \* longest list CustomNotifier is constructed with
MaxFrames == 2       \* distinct frames the clients and the bus produce
MaxMsgs == 2         \* longest message list given to simulate()
MaxStamp == 1        \* largest message timestamp
MaxTime == 1         \* the clock runs to here, and on while a frame is due
MaxStops == 2        \* calls of CANTelemetryApp.stop
MaxRows == 2         \* rows of the messages table
MaxN == 3            \* largest n given to sqlite_read_via
MaxData == 2         \* most data bytes of a message
MaxSimMsgs == 2      \* longest sim_messages list of a configuration
MaxDefs == 2         \* most message definitions of the dbc
MaxBuilds == 2       \* most add_filters calls between two clear_filters

\* ----------------------------------------------------------------- names
NoThread == "none"
\* Threads of the embedding program: those that notify frames, and those that
\* add and remove listeners.
Notifiers == {"u1", "u2"}
Mutators == {"u2", "u3"}
Clients == Notifiers \cup Mutators
Listeners == {"l1", "l2"}
\* A listener is any callable: l2 stands for one that may raise, as may the
\* CSV logger when its file cannot be written.
FaultyListeners == {"l2", "csv"}
\* The thread simulate() number s starts (threading.Thread(target=scheduler.run)).
SchedThread(s) == "sched" \o ToString(s)
\* The simulate() calls: CANTelemetryApp.run makes one per registry.
Sims == {1}
SchedThreads == {SchedThread(s) : s \in Sims}
\* CANTelemetryApp (a Thread), and the reader task of the CANBusManager.
AppThread == "app"
ReaderThread == "reader"
Threads == Clients \cup SchedThreads \cup {AppThread, ReaderThread}

\* A frame handed to notify_listeners directly: no replay call, number i.
DirectFrame(i) == [src |-> "direct", sim |-> 0, i |-> i]
NoFrame == [src |-> "none", sim |-> 0, i |-> 0]
NoListener == "none"

VARIABLES
    listeners,   \* CustomNotifier.__listeners
    lock,        \* the thread holding CustomNotifier.__lock, or NoThread
    rpc,         \* per thread: where it is inside a registry operation
    rlis,        \* per thread: the listener it adds or removes
    rfrm,        \* per thread: the frame it notifies
    ridx,        \* per thread: position of notify_listeners' for loop
    rsnap,       \* history, per thread: the list when its notify took the lock
    rseen,       \* history, per thread: callbacks of its current notify: [l, f]
    cbLog,       \* history: callbacks that got a replayed or a bus frame: [l, f]
    cbAt,        \* history: the clock at the latest of them
    now,         \* time.time()
    sims,        \* per simulate() call: its local variables, scheduler and thread
    cfg,         \* CANTelemetryApp: interface, csv_logging, ascii_logging, sim_messages
    appPc,       \* CANTelemetryApp.run: the statement the thread is at
    appExc,      \* CANTelemetryApp.run: the exception that is leaving it
    stopEvent,   \* CANTelemetryApp._stop_event
    stopCalls,   \* history: calls of CANTelemetryApp.stop
    mgr,         \* the CANBusManager run() made
    loggers,     \* the SqliteWriter, CSVWriter and Logger run() made
    bm,          \* per BusManager subclass: its run_notifier call, bus and Notifier
    fs,          \* the messages table of the SQLite log, and the last sqlite_read_via
    codec,       \* a message, its serialized dictionary and what is read back
    conf,        \* an application, its JSON dictionary and the one made from it
    dbc          \* DbcReader: the frames of the dbc, and a caller's filters list

regVars == <<listeners, lock, rpc, rlis, rfrm, ridx, rsnap, rseen, cbLog, cbAt>>
appVars == <<cfg, appPc, appExc, stopEvent, stopCalls, mgr, loggers>>
dataVars == <<fs, codec, conf, dbc>>
vars == <<listeners, lock, rpc, rlis, rfrm, ridx, rsnap, rseen, cbLog, cbAt, now, sims,
          cfg, appPc, appExc, stopEvent, stopCalls, mgr, loggers, bm, fs, codec, conf, dbc>>

\* All lists CustomNotifier(listeners) can be constructed with.
RECURSIVE SeqsUpTo(_, _)
SeqsUpTo(S, n) ==
    IF n = 0 THEN {<<>>}
    ELSE LET shorter == SeqsUpTo(S, n - 1)
         IN shorter \cup {Append(q, x) : q \in {r \in shorter : Len(r) = n - 1}, x \in S}

\* list.remove(x): the list without the first occurrence of x.
RemoveFirst(q, x) ==
    LET k == CHOOSE i \in 1..Len(q) : q[i] = x /\ \A j \in 1..(i - 1) : q[j] # x
    IN [i \in 1..(Len(q) - 1) |-> IF i < k THEN q[i] ELSE q[i + 1]]

Contains(q, x) == \E i \in 1..Len(q) : q[i] = x

IsReplay(f) == f.src = "replay"

\* The callbacks the history records: those of replayed and of bus frames.
Recorded(f) == f.src \in {"replay", "bus"}

\* CustomNotifier(listeners): the registry after construction with a list of
\* at most n listeners.
InitRegistry(n) ==
    /\ listeners \in SeqsUpTo(Listeners, n)
    /\ lock = NoThread
    /\ rpc = [t \in Threads |-> "idle"]
    /\ rlis = [t \in Threads |-> NoListener]
    /\ rfrm = [t \in Threads |-> NoFrame]
    /\ ridx = [t \in Threads |-> 0]
    /\ rsnap = [t \in Threads |-> <<>>]
    /\ rseen = [t \in Threads |-> <<>>]
    /\ cbLog = <<>>
    /\ cbAt = 0

\* ------------------------------------------------ entering an operation
BeginAdd(t, l) ==
    /\ rpc[t] = "idle"
    /\ rpc' = [rpc EXCEPT ![t] = "add_lock"]
    /\ rlis' = [rlis EXCEPT ![t] = l]
    /\ rfrm' = rfrm

BeginRemove(t, l) ==
    /\ rpc[t] = "idle"
    /\ rpc' = [rpc EXCEPT ![t] = "rem_lock"]
    /\ rlis' = [rlis EXCEPT ![t] = l]
    /\ rfrm' = rfrm

BeginNotify(t, f) ==
    /\ rpc[t] = "idle"
    /\ rpc' = [rpc EXCEPT ![t] = "ntf_lock"]
    /\ rfrm' = [rfrm EXCEPT ![t] = f]
    /\ rlis' = rlis

\* ------------------------------------------------------ CustomNotifier
\* (mutant) the operations do not wait for the lock
LockFreeAlways == TRUE

\* threading.Lock.acquire as `with self.__lock` does it: blocks while held.
LockFree == lock = NoThread

\* with self.__lock: (entry), in add_listener
AddAcquire(t) ==
    /\ rpc[t] = "add_lock"
    /\ LockFree
    /\ lock' = t
    /\ rpc' = [rpc EXCEPT ![t] = "add_body"]
    /\ UNCHANGED <<listeners, rlis, rfrm, ridx, rsnap, rseen, cbLog, cbAt, now, sims, appVars, bm, dataVars>>

\* self.__listeners.append(new_listener), and the with block's exit
AddBody(t) ==
    /\ rpc[t] = "add_body"
    /\ listeners' = Append(listeners, rlis[t])
    /\ lock' = NoThread
    /\ rpc' = [rpc EXCEPT ![t] = "idle"]
    /\ rlis' = [rlis EXCEPT ![t] = NoListener]
    /\ UNCHANGED <<rfrm, ridx, rsnap, rseen, cbLog, cbAt, now, sims, appVars, bm, dataVars>>

\* with self.__lock: (entry), in remove_listener
RemoveAcquire(t) ==
    /\ rpc[t] = "rem_lock"
    /\ LockFree
    /\ lock' = t
    /\ rpc' = [rpc EXCEPT ![t] = "rem_body"]
    /\ UNCHANGED <<listeners, rlis, rfrm, ridx, rsnap, rseen, cbLog, cbAt, now, sims, appVars, bm, dataVars>>

\* (mutant) a remove that finds nothing empties the list
ListAfterValueErrorEmpty(q) == <<>>

\* except ValueError: print(...): the list.remove that raised changed nothing.
ListAfterValueError(q) == q

\* try: self.__listeners.remove(rem_listener) except ValueError: print(...)
RemoveBody(t) ==
    /\ rpc[t] = "rem_body"
    /\ IF Contains(listeners, rlis[t])
       THEN listeners' = RemoveFirst(listeners, rlis[t])
       ELSE listeners' = ListAfterValueError(listeners)
    /\ lock' = NoThread
    /\ rpc' = [rpc EXCEPT ![t] = "idle"]
    /\ rlis' = [rlis EXCEPT ![t] = NoListener]
    /\ UNCHANGED <<rfrm, ridx, rsnap, rseen, cbLog, cbAt, now, sims, appVars, bm, dataVars>>

\* with self.__lock: (entry), in notify_listeners; the for loop starts
NotifyAcquire(t) ==
    /\ rpc[t] = "ntf_lock"
    /\ LockFree
    /\ lock' = t
    /\ rpc' = [rpc EXCEPT ![t] = "ntf_loop"]
    /\ ridx' = [ridx EXCEPT ![t] = 1]
    /\ rsnap' = [rsnap EXCEPT ![t] = listeners]
    /\ rseen' = [rseen EXCEPT ![t] = <<>>]
    /\ UNCHANGED <<listeners, rlis, rfrm, cbLog, cbAt, now, sims, appVars, bm, dataVars>>

\* (mutant) the loop walks the list from its end
LoopListenerReversed(t) == listeners[Len(listeners) + 1 - ridx[t]]

\* (mutant) the loop calls the first listener in every round
LoopListenerFirst(t) == listeners[1]

\* The listener the for loop of thread t is at (the loop walks the live list).
LoopListener(t) == listeners[ridx[t]]

\* The call listener_func(msg) is made: what the histories record of it.
Callback(t) ==
    LET cb == [l |-> LoopListener(t), f |-> rfrm[t]]
    IN /\ rseen' = [rseen EXCEPT ![t] = Append(rseen[t], cb)]
       /\ cbLog' = IF Recorded(rfrm[t]) THEN Append(cbLog, cb) ELSE cbLog
       /\ cbAt' = IF Recorded(rfrm[t]) THEN now ELSE cbAt

\* listener_func(msg) returns; the for loop goes on
NotifyInvoke(t) ==
    /\ rpc[t] = "ntf_loop"
    /\ ridx[t] <= Len(listeners)
    /\ Callback(t)
    /\ ridx' = [ridx EXCEPT ![t] = ridx[t] + 1]
    /\ UNCHANGED <<listeners, lock, rpc, rlis, rfrm, rsnap, now, sims, appVars, bm, dataVars>>

\* (mutant) what a listener raises is swallowed and the loop goes on
PcAfterFaultSwallowed == "ntf_loop"

\* Nothing in notify_listeners catches what listener_func raises.
PcAfterFault == "raised"

\* (mutant) an exception leaves the with block with the lock still held
LockAfterFaultHeld(t) == t

\* `with self.__lock` releases the lock when an exception leaves the block.
LockAfterFault(t) == NoThread

\* listener_func(msg) raises: the with block releases the lock and the
\* exception leaves notify_listeners
NotifyFault(t) ==
    /\ rpc[t] = "ntf_loop"
    /\ ridx[t] <= Len(listeners)
    /\ LoopListener(t) \in FaultyListeners
    /\ Callback(t)
    /\ lock' = LockAfterFault(t)
    /\ rpc' = [rpc EXCEPT ![t] = PcAfterFault]
    /\ UNCHANGED <<listeners, rlis, rfrm, ridx, rsnap, now, sims, appVars, bm, dataVars>>

\* A listener is any callable: l1 stands for one that calls the registry it
\* is registered with (to add a listener, to remove itself, to notify).
ReentrantListeners == {"l1"}

\* (mutant) the lock is released while listener_func runs
LockInCallbackReleased(t) == NoThread

\* listener_func(msg) is called inside `with self.__lock`: the calling thread
\* holds the lock (a threading.Lock, line 23) while the listener runs.
LockInCallback(t) == t

\* listener_func(msg) calls add_listener: the thread is at the method's
\* `with self.__lock`, its notify_listeners loop where it was (ridx > 0).
CallbackAdd(t) ==
    /\ rpc[t] = "ntf_loop"
    /\ ridx[t] <= Len(listeners)
    /\ LoopListener(t) \in ReentrantListeners
    /\ Callback(t)
    /\ lock' = LockInCallback(t)
    /\ rpc' = [rpc EXCEPT ![t] = "add_lock"]
    /\ \E l \in Listeners : rlis' = [rlis EXCEPT ![t] = l]
    /\ UNCHANGED <<listeners, rfrm, ridx, rsnap, now, sims, appVars, bm, dataVars>>

\* listener_func(msg) calls remove_listener, with itself
CallbackRemove(t) ==
    /\ rpc[t] = "ntf_loop"
    /\ ridx[t] <= Len(listeners)
    /\ LoopListener(t) \in ReentrantListeners
    /\ Callback(t)
    /\ lock' = LockInCallback(t)
    /\ rpc' = [rpc EXCEPT ![t] = "rem_lock"]
    /\ rlis' = [rlis EXCEPT ![t] = LoopListener(t)]
    /\ UNCHANGED <<listeners, rfrm, ridx, rsnap, now, sims, appVars, bm, dataVars>>

\* listener_func(msg) calls notify_listeners, with the message it was given
CallbackNotify(t) ==
    /\ rpc[t] = "ntf_loop"
    /\ ridx[t] <= Len(listeners)
    /\ LoopListener(t) \in ReentrantListeners
    /\ Callback(t)
    /\ lock' = LockInCallback(t)
    /\ rpc' = [rpc EXCEPT ![t] = "ntf_lock"]
    /\ UNCHANGED <<listeners, rlis, rfrm, ridx, rsnap, now, sims, appVars, bm, dataVars>>

\* The thread is inside a listener that notify_listeners called and that
\* called add_listener, remove_listener or notify_listeners in turn.
InCallback(t) == rpc[t] \in {"add_lock", "rem_lock", "ntf_lock"} /\ ridx[t] > 0

\* the for loop is exhausted: the with block's exit; notify_listeners returns
NotifyExit(t) ==
    /\ rpc[t] = "ntf_loop"
    /\ ridx[t] > Len(listeners)
    /\ lock' = NoThread
    /\ rpc' = [rpc EXCEPT ![t] = "returned"]
    /\ UNCHANGED <<listeners, rlis, rfrm, ridx, rsnap, rseen, cbLog, cbAt, now, sims, appVars, bm, dataVars>>

\* The caller of notify_listeners goes on after the call (or after the
\* exception it raised): the call's history is dropped.
Resume(t) ==
    /\ rpc[t] \in {"returned", "raised"}
    /\ rpc' = [rpc EXCEPT ![t] = "idle"]
    /\ rfrm' = [rfrm EXCEPT ![t] = NoFrame]
    /\ rlis' = rlis
    /\ ridx' = [ridx EXCEPT ![t] = 0]
    /\ rsnap' = [rsnap EXCEPT ![t] = <<>>]
    /\ rseen' = [rseen EXCEPT ![t] = <<>>]

\* A step of a thread inside notify_listeners.
NotifyStep(t) ==
    \/ NotifyAcquire(t)
    \/ NotifyInvoke(t)
    \/ NotifyFault(t)
    \/ NotifyExit(t)

\* A step of a thread inside add_listener.
AddStep(t) ==
    \/ AddAcquire(t)
    \/ AddBody(t)

\* A step of a thread inside add_listener or remove_listener.
MutateStep(t) ==
    \/ AddStep(t)
    \/ RemoveAcquire(t)
    \/ RemoveBody(t)

\* -------------------------------------------- CustomNotifier.simulate
\* messages: the timestamps of the list's frames, frame i being msgs[i].
SimInputs == SeqsUpTo(0..MaxStamp, MaxMsgs)

\* state, caller, msgs, k, at, delay, queue: the call's position and locals;
\* callAt, regAtCall: history: the clock and the listener list at the call;
\* reads, delays, times, fired: history, per frame of msgs: the
\* clock read for it, the delay computed, the time it was entered for, and
\* how often notify_listeners was called with it.
NoSim == [state |-> "unused", caller |-> NoThread, msgs |-> <<>>, k |-> 0,
          at |-> "none", delay |-> 0, queue |-> {}, callAt |-> 0, regAtCall |-> <<>>,
          reads |-> <<>>, delays |-> <<>>, times |-> <<>>, fired |-> <<>>]

InitSims ==
    /\ now = 0
    /\ sims = [s \in Sims |-> NoSim]

ReplayFrame(s, i) == [src |-> "replay", sim |-> s, i |-> i]

\* The thread is between simulate()'s first line and its return.
InSimulate(t) == \E s \in Sims : sims[s].state = "scheduling" /\ sims[s].caller = t

\* delay = msg.timestamp - time.time(); if delay < 0: delay = 0
Delay(ts, clock) == IF ts - clock < 0 THEN 0 ELSE ts - clock

\* sched.scheduler.enter(delay, ...): the event is due at timefunc() + delay.
EnterTime(delay, clock) == clock + delay

\* The priority every event is entered with.
Priority == 1

\* (mutant) the queue keeps one event per due time
EnqueueByTime(queue, ev) == {d \in queue : d.time # ev.time} \cup {ev}

\* scheduler.enter pushes the event on the scheduler's queue.
Enqueue(queue, ev) == queue \cup {ev}

\* (mutant) the thread does not sleep until the event is due
DueAlways(e) == TRUE

\* scheduler.run: `if time > now: delay = True`, else the event is due.
Due(e) == e.time <= now

\* (mutant) the events are taken in the order they were entered
EarliestEntered(queue) == {e \in queue : \A d \in queue : e.i <= d.i}

\* The events scheduler.run may take next: those that sort first by (time,
\* priority).  Events that tie are taken in an order the library decides.
Earliest(queue) ==
    {e \in queue : \A d \in queue :
        e.time < d.time \/ (e.time = d.time /\ e.prio <= d.prio)}

\* simulate(messages) is called: scheduler = sched.scheduler(time.time, time.sleep)
SimCall(t, s, msgs) ==
    /\ rpc[t] = "idle"
    /\ ~InSimulate(t)
    /\ sims[s].state = "unused"
    /\ sims' = [sims EXCEPT ![s] = [NoSim EXCEPT !.state = "scheduling", !.caller = t,
                                      !.msgs = msgs, !.k = 1, !.at = "read",
                                      !.callAt = now, !.regAtCall = listeners,
                                      !.fired = [i \in 1..Len(msgs) |-> 0]]]

\* for msg in messages: delay = msg.timestamp - time.time(); clamp at 0
SimReadClock(s) ==
    /\ sims[s].state = "scheduling"
    /\ sims[s].at = "read"
    /\ sims[s].k <= Len(sims[s].msgs)
    /\ sims' = [sims EXCEPT ![s].delay = Delay(sims[s].msgs[sims[s].k], now),
                            ![s].reads = Append(sims[s].reads, now),
                            ![s].delays = Append(sims[s].delays,
                                                 Delay(sims[s].msgs[sims[s].k], now)),
                            ![s].at = "enter"]
    /\ UNCHANGED <<regVars, now, appVars, bm, dataVars>>

\* scheduler.enter(delay, 1, self.notify_listeners, (msg,))
SimEnter(s) ==
    /\ sims[s].state = "scheduling"
    /\ sims[s].at = "enter"
    /\ LET ev == [time |-> EnterTime(sims[s].delay, now), prio |-> Priority,
                  i |-> sims[s].k]
       IN sims' = [sims EXCEPT ![s].queue = Enqueue(sims[s].queue, ev),
                               ![s].times = Append(sims[s].times, ev.time),
                               ![s].k = sims[s].k + 1,
                               ![s].at = "read"]
    /\ UNCHANGED <<regVars, now, appVars, bm, dataVars>>

\* (mutant) simulate runs the scheduler itself: it is back when the queue is empty
StartWaitsForQueue(s) == sims[s].queue # {}

\* Thread.start() returns once the thread is started: it does not wait for
\* what scheduler.run does.
StartWaits(s) == FALSE

\* scheduler_thread = threading.Thread(target=scheduler.run); .start(); return
SimStartThread(s) ==
    /\ sims[s].state = "scheduling"
    /\ sims[s].at = "read"
    /\ sims[s].k > Len(sims[s].msgs)
    /\ ~StartWaits(s)
    /\ sims' = [sims EXCEPT ![s].state = "running", ![s].at = "none"]
    /\ UNCHANGED <<regVars, now, appVars, bm, dataVars>>

\* scheduler.run: the first event is due (its time <= timefunc()): it is
\* taken off the queue and its action, notify_listeners(msg), is called.
\* While it is not due the thread sleeps (delayfunc(time - now)).
SchedPop(s) ==
    /\ sims[s].state = "running"
    /\ \E e \in Earliest(sims[s].queue) :
        /\ Due(e)
        /\ BeginNotify(SchedThread(s), ReplayFrame(s, e.i))
        /\ sims' = [sims EXCEPT ![s].queue = sims[s].queue \ {e},
                                ![s].fired[e.i] = sims[s].fired[e.i] + 1]
    /\ UNCHANGED <<listeners, lock, ridx, rsnap, rseen, cbLog, cbAt, now, appVars, bm, dataVars>>

\* scheduler.run: notify_listeners returned; delayfunc(0), the loop goes on
SchedResume(s) ==
    /\ sims[s].state = "running"
    /\ rpc[SchedThread(s)] = "returned"
    /\ Resume(SchedThread(s))
    /\ UNCHANGED <<listeners, lock, cbLog, cbAt, now, sims, appVars, bm, dataVars>>

\* scheduler.run: the queue is empty; run returns and the thread ends
SchedDone(s) ==
    /\ sims[s].state = "running"
    /\ rpc[SchedThread(s)] = "idle"
    /\ sims[s].queue = {}
    /\ sims' = [sims EXCEPT ![s].state = "finished"]
    /\ UNCHANGED <<regVars, now, appVars, bm, dataVars>>

\* An exception left notify_listeners inside scheduler.run: it leaves run
\* and ends the thread, whatever is still queued.
SchedDead(s) == rpc[SchedThread(s)] = "raised"

\* An event some live scheduler still waits for.
FrameDue ==
    \E s \in Sims :
        /\ sims[s].state \in {"scheduling", "running"}
        /\ ~SchedDead(s)
        /\ \E e \in sims[s].queue : e.time > now

\* ------------------------------------------------ callers of the registry
\* A thread of the embedding program calls add_listener.
ClientAdd(t) ==
    /\ ~InSimulate(t)
    /\ Len(listeners) + Cardinality({u \in Threads : rpc[u] \in {"add_lock", "add_body"}}) < MaxListeners
    /\ \E l \in Listeners : BeginAdd(t, l)
    /\ UNCHANGED <<listeners, lock, ridx, rsnap, rseen, cbLog, cbAt, now, sims, appVars, bm, dataVars>>

\* ... calls remove_listener.
ClientRemove(t) ==
    /\ ~InSimulate(t)
    /\ \E l \in Listeners : BeginRemove(t, l)
    /\ UNCHANGED <<listeners, lock, ridx, rsnap, rseen, cbLog, cbAt, now, sims, appVars, bm, dataVars>>

\* ... calls notify_listeners.
ClientNotify(t) ==
    /\ ~InSimulate(t)
    /\ \E i \in 1..MaxFrames : BeginNotify(t, DirectFrame(i))
    /\ UNCHANGED <<listeners, lock, ridx, rsnap, rseen, cbLog, cbAt, now, sims, appVars, bm, dataVars>>

\* ... has its notify_listeners call back, or catches what it raised.
ClientResume(t) ==
    /\ Resume(t)
    /\ UNCHANGED <<listeners, lock, cbLog, cbAt, now, sims, appVars, bm, dataVars>>

\* ... calls simulate.
ClientSimulate(t) ==
    /\ \E s \in Sims, msgs \in SimInputs : SimCall(t, s, msgs)
    /\ UNCHANGED <<regVars, now, appVars, bm, dataVars>>

SimStep(s) ==
    \/ SimReadClock(s)
    \/ SimEnter(s)
    \/ SimStartThread(s)
    \/ SchedPop(s)
    \/ SchedResume(s)
    \/ SchedDone(s)

\* The thread that calls simulate.
Replayer == "u1"

\* -------------------------------------------------------- CANBusManager
\* The class is imported by app.py and is not among the sources: start, stop
\* and the reader task are modelled from the specification (BusConnection,
\* BusManager); add_listener and simulate are the registry's.

\* A frame the reader task received from the transport, number i.
BusFrame(i) == [src |-> "bus", sim |-> 0, i |-> i]

\* made, kind: the instance and its bus_type; life: Disconnected, Connected or
\* Closed; running: the signal the reader loop tests; bus: the transport
\* handle; reader: the reader task; stopPc: where a stop() call is;
\* starts, failedAt, restarted, stops, got: history: start() calls, the one
\* that failed, whether the transport was opened after a stop, stop() calls
\* that returned, and frames received.
NoMgr == [made |-> FALSE, kind |-> "none", life |-> "Disconnected",
          running |-> FALSE, bus |-> "none", reader |-> "none", stopPc |-> "none",
          starts |-> 0, failedAt |-> 0, restarted |-> FALSE, stops |-> 0, got |-> 0]

\* start(): the transport opens and one reader task is spawned.
ManagerStartOk ==
    /\ mgr.stopPc = "none"
    /\ mgr' = [mgr EXCEPT !.life = "Connected", !.running = TRUE, !.bus = "open",
                          !.reader = "recv", !.starts = mgr.starts + 1,
                          !.restarted = mgr.restarted \/ mgr.stops > 0]

\* start(): the hardware transport does not open; the error leaves start().
ManagerStartFail ==
    /\ mgr.stopPc = "none"
    /\ mgr.kind = "pcan"
    /\ mgr' = [mgr EXCEPT !.starts = mgr.starts + 1, !.failedAt = mgr.starts + 1]

\* stop() is called: on a connection that is not running it returns at once;
\* else it signals the reader task.
ManagerStopBegin ==
    /\ mgr.stopPc = "none"
    /\ IF mgr.life = "Connected"
       THEN mgr' = [mgr EXCEPT !.running = FALSE, !.stopPc = "close"]
       ELSE mgr' = [mgr EXCEPT !.stops = mgr.stops + 1]

\* stop() closes the transport.
ManagerStopClose ==
    /\ mgr.stopPc = "close"
    /\ mgr' = [mgr EXCEPT !.bus = "closed", !.stopPc = "join"]
    /\ UNCHANGED <<regVars, now, sims, cfg, appPc, appExc, stopEvent, stopCalls, loggers, bm, dataVars>>

\* stop() joins the reader task and returns.
ManagerStopJoin ==
    /\ mgr.stopPc = "join"
    /\ mgr.reader = "exited"
    /\ mgr' = [mgr EXCEPT !.life = "Closed", !.stopPc = "none", !.stops = mgr.stops + 1]
    /\ UNCHANGED <<regVars, now, sims, cfg, appPc, appExc, stopEvent, stopCalls, loggers, bm, dataVars>>

\* The reader loop: the blocking receive returns a frame, notify is called.
\* (A receive that times out leaves the loop where it was.)
ReaderRecv ==
    /\ mgr.reader = "recv"
    /\ mgr.running
    /\ mgr.bus = "open"
    /\ mgr.got < MaxFrames
    /\ BeginNotify(ReaderThread, BusFrame(mgr.got + 1))
    /\ mgr' = [mgr EXCEPT !.got = mgr.got + 1]
    /\ UNCHANGED <<listeners, lock, ridx, rsnap, rseen, cbLog, cbAt, now, sims,
                   cfg, appPc, appExc, stopEvent, stopCalls, loggers, bm, dataVars>>

\* The reader loop: notify returned; the loop goes on.
ReaderResume ==
    /\ mgr.reader = "recv"
    /\ rpc[ReaderThread] = "returned"
    /\ Resume(ReaderThread)
    /\ UNCHANGED <<listeners, lock, cbLog, cbAt, now, sims, appVars, bm, dataVars>>

\* The reader loop sees the stop signal, or the transport fails under it
\* (it was closed): the loop ends.
ReaderExit ==
    /\ mgr.reader = "recv"
    /\ rpc[ReaderThread] = "idle"
    /\ ~mgr.running \/ mgr.bus # "open"
    /\ mgr' = [mgr EXCEPT !.reader = "exited"]
    /\ UNCHANGED <<regVars, now, sims, cfg, appPc, appExc, stopEvent, stopCalls, loggers, bm, dataVars>>

\* The reader does not catch what a listener raises: it ends the task.
ReaderDie ==
    /\ mgr.reader = "recv"
    /\ rpc[ReaderThread] = "raised"
    /\ Resume(ReaderThread)
    /\ mgr' = [mgr EXCEPT !.reader = "exited"]
    /\ UNCHANGED <<listeners, lock, cbLog, cbAt, now, sims,
                   cfg, appPc, appExc, stopEvent, stopCalls, loggers, bm, dataVars>>

ManagerStep ==
    \/ ManagerStopClose
    \/ ManagerStopJoin
    \/ ReaderRecv
    \/ ReaderResume
    \/ ReaderExit
    \/ ReaderDie

\* ------------------------------------------------------ CANTelemetryApp
Interfaces == {"SIM", "VIRTUAL", "PEAK"}
LoggerNames == {"sqlite", "csv", "ascii"}

\* The configurations the application is constructed with: sim_messages is
\* a list of timestamps, as in simulate(); run() reads it in SIM mode only.
Configs ==
    {c \in [interface : Interfaces, csv : BOOLEAN, ascii : BOOLEAN, msgs : SimInputs] :
        c.interface # "SIM" => c.msgs = <<>>}

\* No application is configured (the registry is used on its own).
NoConfig == [interface |-> "none", csv |-> FALSE, ascii |-> FALSE, msgs |-> <<>>]

\* CANTelemetryApp.__init__: the thread is constructed, not started.
AppNew(c) ==
    /\ cfg = c
    /\ appPc = "new"
    /\ appExc = "none"
    /\ stopEvent = FALSE
    /\ stopCalls = 0
    /\ mgr = NoMgr
    /\ loggers = [l \in LoggerNames |-> "none"]

\* The thread is not inside a call it made: add_listener, simulate or stop.
AppIdle ==
    /\ rpc[AppThread] = "idle"
    /\ ~InSimulate(AppThread)
    /\ mgr.stopPc = "none"

\* bus_type of the manager run() constructs for an interface.
ManagerKind(interface) == IF interface = "PEAK" THEN "pcan" ELSE "virtual"

\* (mutant) the failed connection test is swallowed and run() goes on
PcAfterTestFailureGoOn == "add_sqlite"

\* except PcanCanInitializationError: raise RuntimeWarning(...): run() ends.
PcAfterTestFailure == "failed"

\* (mutant) stop() flips the flag
StopEventFlipped == ~stopEvent

\* setattr(self, "_stop_event", True)
StopEventAfterStop == TRUE

\* telemetry.start(): Thread.start, from the main thread; run() begins.
AppStart ==
    /\ appPc = "new"
    /\ appPc' = "create"
    /\ UNCHANGED <<regVars, now, sims, cfg, appExc, stopEvent, stopCalls, mgr, loggers, bm, dataVars>>

\* telemetry.stop(), from the main thread, at any time.
AppStop ==
    /\ stopCalls < MaxStops
    /\ stopCalls' = stopCalls + 1
    /\ stopEvent' = StopEventAfterStop
    /\ UNCHANGED <<regVars, now, sims, cfg, appPc, appExc, mgr, loggers, bm, dataVars>>

\* manager = CANBusManager(...)
AppCreate ==
    /\ appPc = "create"
    /\ mgr' = [mgr EXCEPT !.made = TRUE, !.kind = ManagerKind(cfg.interface)]
    /\ appPc' = IF cfg.interface = "PEAK" THEN "test_start" ELSE "add_sqlite"
    /\ UNCHANGED <<regVars, now, sims, cfg, appExc, stopEvent, stopCalls, loggers, bm, dataVars>>

\* Test connection: manager.start() opens the transport
AppTestStart ==
    /\ appPc = "test_start"
    /\ ManagerStartOk
    /\ appPc' = "test_stop"
    /\ UNCHANGED <<regVars, now, sims, cfg, appExc, stopEvent, stopCalls, loggers, bm, dataVars>>

\* Test connection: manager.start() raises PcanCanInitializationError
AppTestStartFail ==
    /\ appPc = "test_start"
    /\ ManagerStartFail
    /\ appPc' = PcAfterTestFailure
    /\ appExc' = "RuntimeWarning"
    /\ UNCHANGED <<regVars, now, sims, cfg, stopEvent, stopCalls, loggers, bm, dataVars>>

\* Test connection: manager.stop()
AppTestStop ==
    /\ appPc = "test_stop"
    /\ ManagerStopBegin
    /\ appPc' = "add_sqlite"
    /\ UNCHANGED <<regVars, now, sims, cfg, appExc, stopEvent, stopCalls, loggers, bm, dataVars>>

\* sqlite_logger = can.SqliteWriter(...); manager.add_listener(sqlite_logger)
AppAddSqlite ==
    /\ appPc = "add_sqlite"
    /\ AppIdle
    /\ loggers' = [loggers EXCEPT !["sqlite"] = "open"]
    /\ BeginAdd(AppThread, "sqlite")
    /\ appPc' = "add_csv"
    /\ UNCHANGED <<listeners, lock, ridx, rsnap, rseen, cbLog, cbAt, now, sims,
                   cfg, appExc, stopEvent, stopCalls, mgr, bm, dataVars>>

\* csv_logger = ...; ascii_logger = ...; if csv_logger: manager.add_listener(csv_logger)
AppAddCsv ==
    /\ appPc = "add_csv"
    /\ AppIdle
    /\ loggers' = [loggers EXCEPT !["csv"] = IF cfg.csv THEN "open" ELSE "none",
                                  !["ascii"] = IF cfg.ascii THEN "open" ELSE "none"]
    /\ IF cfg.csv THEN BeginAdd(AppThread, "csv") ELSE UNCHANGED <<rpc, rlis, rfrm>>
    /\ appPc' = "add_ascii"
    /\ UNCHANGED <<listeners, lock, ridx, rsnap, rseen, cbLog, cbAt, now, sims,
                   cfg, appExc, stopEvent, stopCalls, mgr, bm, dataVars>>

\* if ascii_logger: manager.add_listener(ascii_logger)
AppAddAscii ==
    /\ appPc = "add_ascii"
    /\ AppIdle
    /\ IF cfg.ascii THEN BeginAdd(AppThread, "ascii") ELSE UNCHANGED <<rpc, rlis, rfrm>>
    /\ appPc' = "begin"
    /\ UNCHANGED <<listeners, lock, ridx, rsnap, rseen, cbLog, cbAt, now, sims,
                   cfg, appExc, stopEvent, stopCalls, mgr, loggers, bm, dataVars>>

\* try: if SIM: manager.simulate(messages=self.__sim_messages)
AppSimulate ==
    /\ appPc = "begin"
    /\ AppIdle
    /\ cfg.interface = "SIM"
    /\ \E s \in Sims : SimCall(AppThread, s, cfg.msgs)
    /\ appPc' = "loop"
    /\ UNCHANGED <<regVars, now, cfg, appExc, stopEvent, stopCalls, mgr, loggers, bm, dataVars>>

\* else: manager.start() opens the transport
AppManagerStart ==
    /\ appPc = "begin"
    /\ AppIdle
    /\ cfg.interface # "SIM"
    /\ ManagerStartOk
    /\ appPc' = "loop"
    /\ UNCHANGED <<regVars, now, sims, cfg, appExc, stopEvent, stopCalls, loggers, bm, dataVars>>

\* else: manager.start() raises; nothing catches it: the finally block runs
AppManagerStartFail ==
    /\ appPc = "begin"
    /\ AppIdle
    /\ cfg.interface # "SIM"
    /\ ManagerStartFail
    /\ appExc' = "PcanCanInitializationError"
    /\ appPc' = "fin_sqlite"
    /\ UNCHANGED <<regVars, now, sims, cfg, stopEvent, stopCalls, loggers, bm, dataVars>>

\* while not getattr(self, "_stop_event", True): pass -- the loop ends
AppLoopExit ==
    /\ appPc = "loop"
    /\ AppIdle
    /\ stopEvent
    /\ appPc' = "fin_sqlite"
    /\ UNCHANGED <<regVars, now, sims, cfg, appExc, stopEvent, stopCalls, mgr, loggers, bm, dataVars>>

\* finally: sqlite_logger.stop()
AppFinSqlite ==
    /\ appPc = "fin_sqlite"
    /\ loggers' = [loggers EXCEPT !["sqlite"] = "stopped"]
    /\ appPc' = "fin_loggers"
    /\ UNCHANGED <<regVars, now, sims, cfg, appExc, stopEvent, stopCalls, mgr, bm, dataVars>>

\* (mutant) the finally block ends after the loggers
PcAfterLoggersEnd == "end"

\* the finally block goes on to `manager.stop()`
PcAfterLoggers == "fin_mgr"

\* if self.__csv_logging: csv_logger.stop(); if self.__ascii_logging: ascii_logger.stop()
AppFinLoggers ==
    /\ appPc = "fin_loggers"
    /\ loggers' = [loggers EXCEPT !["csv"] = IF cfg.csv THEN "stopped" ELSE "none",
                                  !["ascii"] = IF cfg.ascii THEN "stopped" ELSE "none"]
    /\ appPc' = PcAfterLoggers
    /\ UNCHANGED <<regVars, now, sims, cfg, appExc, stopEvent, stopCalls, mgr, bm, dataVars>>

\* finally: manager.stop()
AppFinManager ==
    /\ appPc = "fin_mgr"
    /\ ManagerStopBegin
    /\ appPc' = "end"
    /\ UNCHANGED <<regVars, now, sims, cfg, appExc, stopEvent, stopCalls, loggers, bm, dataVars>>

\* manager.stop() returned: run() returns, or the exception leaves it.
AppEnd ==
    /\ appPc = "end"
    /\ mgr.stopPc = "none"
    /\ appPc' = IF appExc = "none" THEN "done" ELSE "failed"
    /\ UNCHANGED <<regVars, now, sims, cfg, appExc, stopEvent, stopCalls, mgr, loggers, bm, dataVars>>

AppStep ==
    \/ AppCreate
    \/ AppTestStart
    \/ AppTestStartFail
    \/ AppTestStop
    \/ AppAddSqlite
    \/ AppAddCsv
    \/ AppAddAscii
    \/ AppSimulate
    \/ AppManagerStart
    \/ AppManagerStartFail
    \/ AppLoopExit
    \/ AppFinSqlite
    \/ AppFinLoggers
    \/ AppFinManager
    \/ AppEnd

\* ---------------------------------------------- BusManager.run_notifier
BusManagers == {"Virtual", "PeakCANBasic"}

\* time.sleep(1.0)
SleepTime == 1

\* pc: where run_notifier is; bus: the can.Bus of its with block; reader: the
\* thread can.Notifier started; wake: when its sleep ends; got: history,
\* frames listener_func was called with.
NoRun == [pc |-> "idle", bus |-> "none", reader |-> "none", wake |-> 0, got |-> 0]

BusNew == bm = [b \in BusManagers |-> NoRun]

\* with self.connection() as b: the bus opens
RunNotifierOpen(b) ==
    /\ bm[b].pc = "idle"
    /\ bm' = [bm EXCEPT ![b].pc = "open", ![b].bus = "open"]
    /\ UNCHANGED <<regVars, now, sims, appVars, dataVars>>

\* with self.connection() as b: the hardware does not open; the error leaves
\* run_notifier
RunNotifierOpenFail(b) ==
    /\ bm[b].pc = "idle"
    /\ b = "PeakCANBasic"
    /\ bm' = [bm EXCEPT ![b].pc = "raised"]
    /\ UNCHANGED <<regVars, now, sims, appVars, dataVars>>

\* Notifier(b, [listener_func]): the notifier starts its reader thread
RunNotifierCreate(b) ==
    /\ bm[b].pc = "open"
    /\ bm' = [bm EXCEPT ![b].pc = "notifier", ![b].reader = "running"]
    /\ UNCHANGED <<regVars, now, sims, appVars, dataVars>>

\* time.sleep(1.0) is called
RunNotifierSleep(b) ==
    /\ bm[b].pc = "notifier"
    /\ bm' = [bm EXCEPT ![b].pc = "sleep", ![b].wake = now + SleepTime]
    /\ UNCHANGED <<regVars, now, sims, appVars, dataVars>>

\* the sleep is over: the with block's exit shuts the bus down; return.
\* Nothing stops the notifier.
RunNotifierExit(b) ==
    /\ bm[b].pc = "sleep"
    /\ now >= bm[b].wake
    /\ bm' = [bm EXCEPT ![b].pc = "returned", ![b].bus = "shut"]
    /\ UNCHANGED <<regVars, now, sims, appVars, dataVars>>

\* The notifier's thread: bus.recv returns a frame, listener_func(msg)
NotifierRecv(b) ==
    /\ bm[b].reader = "running"
    /\ bm[b].bus = "open"
    /\ bm[b].got < MaxFrames
    /\ bm' = [bm EXCEPT ![b].got = bm[b].got + 1]
    /\ UNCHANGED <<regVars, now, sims, appVars, dataVars>>

\* The notifier's thread: bus.recv raises on the bus that was shut down, and
\* the thread ends (a bus whose recv only times out keeps it running).
NotifierFail(b) ==
    /\ bm[b].reader = "running"
    /\ bm[b].bus = "shut"
    /\ bm' = [bm EXCEPT ![b].reader = "ended"]
    /\ UNCHANGED <<regVars, now, sims, appVars, dataVars>>

\* A run_notifier call sleeps.
Sleeping == \E b \in BusManagers : bm[b].pc = "sleep" /\ bm[b].wake > now

BusStep(b) ==
    \/ RunNotifierOpen(b)
    \/ RunNotifierOpenFail(b)
    \/ RunNotifierCreate(b)
    \/ RunNotifierSleep(b)
    \/ RunNotifierExit(b)
    \/ NotifierRecv(b)
    \/ NotifierFail(b)

\* -------------------------------------- CANTelemetryApp.sqlite_read_via
\* Arbitration ids of the frames that are logged.
Ids == {1, 2}

\* A row of the messages table: the columns ts, arbitration_id and error (the
\* other columns are read back as they are and take no part in a query).
Rows == [ts : 0..MaxStamp, id : Ids, error : BOOLEAN]

\* The columns of the messages table, as the method's SELECT and its
\* docstring name them.
Columns == {"ts", "arbitration_id", "extended", "remote", "error", "dlc", "data"}

\* An optional argument: given is FALSE for None.
NoIds == [given |-> FALSE, ids |-> {}]
IdLists == {NoIds} \cup [given : {TRUE}, ids : SUBSET Ids]
NoFlag == [given |-> FALSE, val |-> FALSE]
Flags == {NoFlag} \cup [given : {TRUE}, val : BOOLEAN]

\* n, white, black, error: the arguments of the last sqlite_read_via call;
\* size: the rows the table had then; ok: it returned (else cursor.execute
\* raised); idx: the table rows of the messages it returned, in the order of
\* the list.
NoQuery == [made |-> FALSE, n |-> 0, white |-> NoIds, black |-> NoIds,
            error |-> NoFlag, size |-> 0, ok |-> FALSE, idx |-> <<>>]

FsNew == fs = [rows |-> <<>>, q |-> NoQuery]

\* `if white_list_ids:` / `if black_list_ids:` -- None and [] add no condition
Truthy(l) == l.given /\ l.ids # {}

\* The columns the WHERE clause names.
WhereColumns(white, black, error) ==
    {c \in {"arbitration_id"} : Truthy(white) \/ Truthy(black)}
        \cup {c \in {"is_error_frame"} : error.given}

\* cursor.execute: SQLite raises for a column the table does not have.
Executes(white, black, error) == WhereColumns(white, black, error) \subseteq Columns

\* The row satisfies the conditions, ANDed.
Selected(row, white, black, error) ==
    /\ Truthy(white) => row.id \in white.ids
    /\ Truthy(black) => row.id \notin black.ids

Min(a, b) == IF a <= b THEN a ELSE b

\* ORDER BY ts DESC LIMIT n: the lists of row numbers fetchall can return:
\* the selected rows by descending ts, cut after n; rows of equal ts come in
\* an order SQLite chooses.
Fetched(rows, n, white, black, error) ==
    LET sel == {i \in 1..Len(rows) : Selected(rows[i], white, black, error)}
        k == Min(n, Cardinality(sel))
    IN {p \in [1..k -> sel] :
          /\ \A a, b \in 1..k : a < b => (p[a] # p[b] /\ rows[p[a]].ts >= rows[p[b]].ts)
          /\ \A i \in sel : (\A a \in 1..k : p[a] # i) =>
                 \A a \in 1..k : rows[p[a]].ts >= rows[i].ts}

\* The SqliteWriter run() registered writes a frame to the table.
Persist(row) ==
    /\ Len(fs.rows) < MaxRows
    /\ fs' = [fs EXCEPT !.rows = Append(fs.rows, row)]
    /\ UNCHANGED <<regVars, now, sims, appVars, bm, codec, conf, dbc>>

\* sqlite_read_via(n, white_list_ids, black_list_ids, is_error_frame)
SqliteReadVia(n, white, black, error) ==
    /\ IF Executes(white, black, error)
       THEN \E p \in Fetched(fs.rows, n, white, black, error) :
                fs' = [fs EXCEPT !.q = [made |-> TRUE, n |-> n, white |-> white,
                                        black |-> black, error |-> error,
                                        size |-> Len(fs.rows), ok |-> TRUE, idx |-> p]]
       ELSE fs' = [fs EXCEPT !.q = [made |-> TRUE, n |-> n, white |-> white,
                                    black |-> black, error |-> error,
                                    size |-> Len(fs.rows), ok |-> FALSE, idx |-> <<>>]]
    /\ UNCHANGED <<regVars, now, sims, appVars, bm, codec, conf, dbc>>

\* --------------------------- message_serializer, message_deserializer
\* The byte values the payloads are made of.
Bytes == {0, 255}
Channels == {"null", "can0"}

\* Values as Python and JSON hold them: None/null, a bytearray, a list.
Null == [kind |-> "null", v |-> <<>>]
BytesOf(q) == [kind |-> "bytes", v |-> q]
ListOf(q) == [kind |-> "list", v |-> q]
\* An optional integer (dlc): given is FALSE for None.
NoInt == [given |-> FALSE, n |-> 0]
IntOf(n) == [given |-> TRUE, n |-> n]

Payloads == SeqsUpTo(Bytes, MaxData)

\* The keyword arguments can.Message is constructed with.
MessageArgs ==
    [timestamp : 0..MaxStamp, arbitration_id : Ids, is_extended_id : BOOLEAN,
     channel : Channels, dlc : {NoInt} \cup {IntOf(n) : n \in 0..MaxData},
     data : {Null} \cup {ListOf(q) : q \in Payloads} \cup {BytesOf(q) : q \in Payloads},
     is_error_frame : BOOLEAN, is_remote_frame : BOOLEAN, is_fd : BOOLEAN,
     bitrate_switch : BOOLEAN, error_state_indicator : BOOLEAN]

\* can.Message(...): data is a bytearray, empty when None is given or the
\* frame is a remote frame; dlc is the data's length when None is given.
Message(a) ==
    LET data == IF a.data.kind = "null" \/ a.is_remote_frame
                THEN BytesOf(<<>>) ELSE BytesOf(a.data.v)
    IN [a EXCEPT !.data = data,
                 !.dlc = IF a.dlc.given THEN a.dlc ELSE IntOf(Len(data.v))]

\* Every can.Message there is (within the bounds).
Messages == {Message(a) : a \in MessageArgs}

\* (mutant) the bytes are listed from the last to the first
DataListReversed(d) ==
    IF d.kind = "null" THEN Null
    ELSE ListOf([k \in 1..Len(d.v) |-> d.v[Len(d.v) + 1 - k]])

\* data = list(msg.data) if msg.data is not None else None
DataList(d) == IF d.kind = "null" THEN Null ELSE ListOf(d.v)

\* message_serializer(msg): the dictionary
MessageSerializer(msg) == [msg EXCEPT !.data = DataList(msg.data)]

\* message_deserializer(data): can.Message(timestamp=data.get("timestamp"), ...)
MessageDeserializer(d) == Message(d)

NoMessage ==
    [timestamp |-> 0, arbitration_id |-> 0, is_extended_id |-> FALSE,
     channel |-> "null", dlc |-> NoInt, data |-> Null, is_error_frame |-> FALSE,
     is_remote_frame |-> FALSE, is_fd |-> FALSE, bitrate_switch |-> FALSE,
     error_state_indicator |-> FALSE]

\* stage: what has been done; msg: the message; dict: message_serializer's
\* result; back: message_deserializer's result.
CodecNew == codec = [stage |-> "none", msg |-> NoMessage, dict |-> NoMessage,
                     back |-> NoMessage]

\* A message has been constructed.
CodecOf(msg) ==
    codec = [stage |-> "msg", msg |-> msg, dict |-> NoMessage, back |-> NoMessage]

\* message_serializer(msg)
Serialize ==
    /\ codec.stage = "msg"
    /\ codec' = [codec EXCEPT !.stage = "dict", !.dict = MessageSerializer(codec.msg)]
    /\ UNCHANGED <<regVars, now, sims, appVars, bm, fs, conf, dbc>>

\* message_deserializer(data)
Deserialize ==
    /\ codec.stage = "dict"
    /\ codec' = [codec EXCEPT !.stage = "back", !.back = MessageDeserializer(codec.dict)]
    /\ UNCHANGED <<regVars, now, sims, appVars, bm, fs, conf, dbc>>

\* ------------------------------------ the configuration as JSON (app.py)

\* class CANInterface(Enum): SIM = auto(), VIRTUAL = auto(), PEAK = auto()
CANInterface ==
    {[name |-> "SIM", value |-> 1], [name |-> "VIRTUAL", value |-> 2],
     [name |-> "PEAK", value |-> 3]}

\* CANInterface[name]: the member of that name
InterfaceByName(name) == CHOOSE m \in CANInterface : m.name = name

\* An optional string: given is FALSE for None.
NoStr == [given |-> FALSE, s |-> ""]
StrOf(s) == [given |-> TRUE, s |-> s]

\* An optional list: kind is "null" for None.
HardwareFilters ==
    {Null, ListOf(<<>>),
     ListOf(<<[can_id |-> 1, can_mask |-> 2047, extended |-> FALSE]>>),
     ListOf(<<[can_id |-> 2, can_mask |-> 2047, extended |-> FALSE],
              [can_id |-> 1, can_mask |-> 2047, extended |-> FALSE]>>)}

\* The messages a configuration is given: a data frame, a remote frame with
\* a dlc, an error frame without data.
SimMessages ==
    {Message([NoMessage EXCEPT !.arbitration_id = 1, !.timestamp = 1,
                               !.data = BytesOf(<<0, 255>>)]),
     Message([NoMessage EXCEPT !.arbitration_id = 2, !.is_remote_frame = TRUE,
                               !.dlc = IntOf(2), !.channel = "can0"]),
     Message([NoMessage EXCEPT !.arbitration_id = 1, !.is_error_frame = TRUE])}

\* The arguments of CANTelemetryApp(...); sim_messages None is kind "null".
AppArgs ==
    [dbc_file_path : {"a.dbc", "b.dbc"},
     interface : CANInterface,
     bit_rate : {250000, 500000},
     hardware_filters : HardwareFilters,
     base_log_file_path : {NoStr, StrOf("log"), StrOf("out")},
     csv_logging : BOOLEAN,
     ascii_logging : BOOLEAN,
     sim_messages : {Null} \cup {ListOf(q) : q \in SeqsUpTo(SimMessages, MaxSimMsgs)}]

\* f"{datetime.now().strftime('%Y-%m-%d %H-%M-%S')}_log"
StampedLog(t) == IF t = 0 THEN "0_log" ELSE "1_log"

\* CANTelemetryApp.__init__: the attributes of the new object
CANTelemetryApp(a, t) ==
    [dbc_file_path |-> a.dbc_file_path,
     interface |-> a.interface,
     bit_rate |-> a.bit_rate,
     hardware_filters |-> a.hardware_filters,
     base_log_file_path |->
         IF a.base_log_file_path.given THEN a.base_log_file_path.s
         ELSE StampedLog(t),
     csv_logging |-> a.csv_logging,
     ascii_logging |-> a.ascii_logging,
     sim_messages |-> IF a.sim_messages.kind = "null" THEN <<>>
                      ELSE a.sim_messages.v]

\* (mutant) the messages are serialized from the last to the first
SerializedMessagesReversed(msgs) ==
    [k \in 1..Len(msgs) |-> MessageSerializer(msgs[Len(msgs) + 1 - k])]

\* [message_serializer(msg) for msg in self.__sim_messages]
SerializedMessages(msgs) == [k \in 1..Len(msgs) |-> MessageSerializer(msgs[k])]

\* __to_json_dict(): the dictionary json.dumps writes and json.loads reads
\* back; None is written as null and read as None.
ToJsonDict(app) ==
    [dbc_file_path |-> app.dbc_file_path,
     interface |-> app.interface.name,
     bit_rate |-> app.bit_rate,
     hardware_filters |-> app.hardware_filters,
     base_log_file_path |-> app.base_log_file_path,
     csv_logging |-> app.csv_logging,
     ascii_logging |-> app.ascii_logging,
     sim_messages |-> SerializedMessages(app.sim_messages)]

\* bool(x) of a JSON true or false
Bool(x) == x = TRUE

\* __from_dict(data): every key is in the dictionary, so no default of
\* data.get is used; a null hardware_filters is given on as None.
FromDict(data, t) ==
    CANTelemetryApp(
        [dbc_file_path |-> data.dbc_file_path,
         interface |-> InterfaceByName(data.interface),
         bit_rate |-> data.bit_rate,
         hardware_filters |-> data.hardware_filters,
         base_log_file_path |-> StrOf(data.base_log_file_path),
         csv_logging |-> Bool(data.csv_logging),
         ascii_logging |-> Bool(data.ascii_logging),
         sim_messages |->
             ListOf([k \in 1..Len(data.sim_messages) |->
                        MessageDeserializer(data.sim_messages[k])])], t)

NoApp == CANTelemetryApp(
    [dbc_file_path |-> "", interface |-> InterfaceByName("VIRTUAL"),
     bit_rate |-> 500000, hardware_filters |-> Null,
     base_log_file_path |-> StrOf(""), csv_logging |-> FALSE,
     ascii_logging |-> FALSE, sim_messages |-> Null], 0)

\* stage: what has been done; app: the configured object; dict: the JSON
\* dictionary of to_json; back: the object from_json makes of it.
ConfNew == conf = [stage |-> "none", app |-> NoApp, dict |-> ToJsonDict(NoApp),
                   back |-> NoApp]

\* An object has been constructed.
ConfOf(app) ==
    conf = [stage |-> "app", app |-> app, dict |-> ToJsonDict(NoApp), back |-> NoApp]

\* to_json()
ToJson ==
    /\ conf.stage = "app"
    /\ conf' = [conf EXCEPT !.stage = "json", !.dict = ToJsonDict(conf.app)]
    /\ UNCHANGED <<regVars, now, sims, appVars, bm, fs, codec, dbc>>

\* from_json(json_data)
FromJson ==
    /\ conf.stage = "json"
    /\ conf' = [conf EXCEPT !.stage = "back", !.back = FromDict(conf.dict, now)]
    /\ UNCHANGED <<regVars, now, sims, appVars, bm, fs, codec, dbc>>

\* ------------------------------------------- DbcReader (dbc_reader.py)

\* Names and search strings are sequences of characters.
Names == {<<"a">>, <<"A">>, <<"A", "a">>, <<"a", "b", "A">>}
Subs == {<<>>, <<"a">>, <<"A">>, <<"b", "A">>}

\* A message definition of the dbc: message.name, message.arbitration_id.id
Definitions == [name : Names, id : Ids]
Dbcs == SeqsUpTo(Definitions, MaxDefs)

\* (mutant) msg in message.name, whatever the case of the letters
IsSubstringAnyCase(msg, name) ==
    LET Lower(q) == [k \in 1..Len(q) |-> IF q[k] = "A" THEN "a" ELSE q[k]]
    IN \E i \in 0..(Len(name) - Len(msg)) :
           Lower(SubSeq(name, i + 1, i + Len(msg))) = Lower(msg)

\* msg in message.name
IsSubstring(msg, name) ==
    \E i \in 0..(Len(name) - Len(msg)) : SubSeq(name, i + 1, i + Len(msg)) = msg

\* The ids add_filters appends: one for each definition whose name holds
\* msg, in the order of self.dbc.frames.
AddedIds(frames, msg) ==
    LET found == SelectSeq(frames, LAMBDA message : IsSubstring(msg, message.name))
    IN [k \in 1..Len(found) |-> found[k].id]

\* frames: self.dbc.frames; filters: the caller's list; calls: the strings
\* add_filters was given since the list was last empty; cleared: a list
\* that held ids has been cleared.
DbcOf(frames) ==
    dbc = [frames |-> frames, filters |-> <<>>, calls |-> <<>>, cleared |-> FALSE]

DbcNew == DbcOf(<<>>)

\* add_filters(filters, msg)
AddFilters(msg) ==
    /\ Len(dbc.calls) < MaxBuilds
    /\ dbc' = [dbc EXCEPT !.filters = dbc.filters \o AddedIds(dbc.frames, msg),
                          !.calls = Append(dbc.calls, msg)]
    /\ UNCHANGED <<regVars, now, sims, appVars, bm, fs, codec, conf>>

\* clear_filters(filters): filters.clear()
ClearFilters ==
    /\ dbc' = [dbc EXCEPT !.filters = <<>>, !.calls = <<>>,
                          !.cleared = dbc.cleared \/ dbc.filters # <<>>]
    /\ UNCHANGED <<regVars, now, sims, appVars, bm, fs, codec, conf>>


\* Nothing is logged, serialized or filtered yet.
DataNew == FsNew /\ CodecNew /\ ConfNew /\ DbcNew

\* ------------------------------------------------------------ the clock
\* The clock advances.
Tick ==
    /\ now < MaxTime \/ FrameDue \/ Sleeping
    /\ now' = now + 1
    /\ UNCHANGED <<regVars, sims, appVars, bm, dataVars>>

\* The clock advances while a replay thread sleeps until its next event.
Wait ==
    /\ FrameDue
    /\ now' = now + 1
    /\ UNCHANGED <<regVars, sims, appVars, bm, dataVars>>

\* --------------------------------------------------------- the registry
\* Threads of a program add and remove listeners and notify frames.
InitReg == InitRegistry(MaxInit) /\ InitSims /\ AppNew(NoConfig) /\ BusNew /\ DataNew

NextReg ==
    \/ \E t \in Mutators :
        \/ ClientAdd(t)
        \/ ClientRemove(t)
        \/ MutateStep(t)
    \/ \E t \in Notifiers :
        \/ ClientNotify(t)
        \/ ClientResume(t)
        \/ NotifyStep(t)

SpecReg == InitReg /\ [][NextReg]_vars

\* ----------------------------------------- the registry, called back into
\* One thread notifies frames to listeners that may call the registry; another
\* adds and removes listeners and notifies frames.
CallerThread == "u1"
OtherThread == "u2"

NextReenter ==
    \/ ClientNotify(CallerThread)
    \/ ClientResume(CallerThread)
    \/ NotifyStep(CallerThread)
    \/ CallbackAdd(CallerThread)
    \/ CallbackRemove(CallerThread)
    \/ CallbackNotify(CallerThread)
    \/ ClientAdd(OtherThread)
    \/ ClientRemove(OtherThread)
    \/ MutateStep(OtherThread)
    \/ ClientNotify(OtherThread)
    \/ ClientResume(OtherThread)
    \/ NotifyStep(OtherThread)

SpecReenter == InitReg /\ [][NextReenter]_vars

\* ----------------------------------------------------------- the replay
\* A thread calls simulate on a registry constructed with some listeners.
InitSim == InitRegistry(MaxInit) /\ InitSims /\ AppNew(NoConfig) /\ BusNew /\ DataNew

NextSim ==
    \/ ClientSimulate(Replayer)
    \/ \E s \in Sims : SimStep(s)
    \/ \E t \in SchedThreads : NotifyStep(t)
    \/ Tick

SpecSim == InitSim /\ [][NextSim]_vars

\* The replay with the scheduling the threads get: a thread that can take a
\* step eventually takes one (no listener blocks), and the clock advances.
FairSim ==
    /\ WF_vars(Tick)
    /\ \A s \in Sims : WF_vars(SimStep(s))
    /\ \A t \in SchedThreads : WF_vars(NotifyStep(t))

SpecSimFair == SpecSim /\ FairSim

\* ------------------------------------------- the replay with a live registry
\* The thread that called simulate goes on to add and remove listeners while
\* the replay thread delivers.
AfterSimulate(t) == \E s \in Sims : sims[s].caller = t /\ sims[s].state # "unused"

LiveAdd(t) == AfterSimulate(t) /\ ClientAdd(t)

LiveRemove(t) == AfterSimulate(t) /\ ClientRemove(t)

NextLive ==
    \/ ClientSimulate(Replayer)
    \/ LiveAdd(Replayer)
    \/ LiveRemove(Replayer)
    \/ MutateStep(Replayer)
    \/ \E s \in Sims : SimStep(s)
    \/ \E t \in SchedThreads : NotifyStep(t)
    \/ Wait

SpecLive == InitSim /\ [][NextLive]_vars

\* The main thread constructs the application for some configuration, starts
\* it and stops it; the manager's registry starts with no listener.  The
\* clock is counted from the run's start: timestamp 0 is a frame of the past,
\* later ones are frames the replay has to wait for.
InitApp == InitRegistry(0) /\ InitSims /\ BusNew /\ \E c \in Configs : AppNew(c) /\ DataNew

NextApp ==
    \/ AppStart
    \/ AppStop
    \/ AppStep
    \/ ManagerStep
    \/ AddStep(AppThread)
    \/ \E s \in Sims : SimStep(s)
    \/ \E t \in SchedThreads \cup {ReaderThread} : NotifyStep(t)
    \/ Wait

SpecApp == InitApp /\ [][NextApp]_vars

\* The application with the scheduling its threads get: the application
\* thread, the reader task, the replay thread and a stop() in progress each
\* take a step when they can, and the clock advances.  When the main thread
\* calls start() and stop() is its own choice.
FairApp ==
    /\ WF_vars(AppStep)
    /\ WF_vars(ManagerStep)
    /\ WF_vars(AddStep(AppThread))
    /\ \A s \in Sims : WF_vars(SimStep(s))
    /\ \A t \in SchedThreads \cup {ReaderThread} : WF_vars(NotifyStep(t))
    /\ WF_vars(Wait)

SpecAppFair == SpecApp /\ FairApp

\* ------------------------------------------------- the bus managers
\* run_notifier is called once on a Virtual and once on a PeakCANBasic.
InitBus == InitRegistry(0) /\ InitSims /\ BusNew /\ AppNew(NoConfig) /\ DataNew

NextBus ==
    \/ \E b \in BusManagers : BusStep(b)
    \/ Tick

SpecBus == InitBus /\ [][NextBus]_vars

\* ---------------------------------------------------- the frame store
\* Frames are logged and the log is queried, once, at any point (a query
\* leaves the table as it is).
InitStore == InitRegistry(0) /\ InitSims /\ BusNew /\ AppNew(NoConfig) /\ DataNew

Query ==
    /\ ~fs.q.made
    /\ \E n \in 0..MaxN, white \in IdLists, black \in IdLists, error \in Flags :
           SqliteReadVia(n, white, black, error)

NextStore ==
    \/ \E row \in Rows : Persist(row)
    \/ Query

SpecStore == InitStore /\ [][NextStore]_vars

\* ------------------------------------------------- the message codec
\* A message is constructed, serialized and read back.
InitCodec ==
    /\ InitRegistry(0) /\ InitSims /\ BusNew /\ AppNew(NoConfig)
    /\ FsNew /\ ConfNew /\ DbcNew
    /\ \E a \in MessageArgs : CodecOf(Message(a))

NextCodec ==
    \/ Serialize
    \/ Deserialize

SpecCodec == InitCodec /\ [][NextCodec]_vars

\* ------------------------------------------- the configuration as JSON

InitConf ==
    /\ InitRegistry(0) /\ InitSims /\ BusNew /\ AppNew(NoConfig)
    /\ FsNew /\ CodecNew /\ DbcNew
    /\ \E a \in AppArgs : ConfOf(CANTelemetryApp(a, now))

NextConf ==
    \/ ToJson
    \/ FromJson

SpecConf == InitConf /\ [][NextConf]_vars

\* ---------------------------------------------------------- DbcReader

InitDbc ==
    /\ InitRegistry(0) /\ InitSims /\ BusNew /\ AppNew(NoConfig)
    /\ FsNew /\ CodecNew /\ ConfNew
    /\ \E frames \in Dbcs : DbcOf(frames)

Build == \E msg \in Subs : AddFilters(msg)

NextDbc ==
    \/ Build
    \/ ClearFilters

SpecDbc == InitDbc /\ [][NextDbc]_vars

\* ================================================================ claims

Max(a, b) == IF a >= b THEN a ELSE b

IsPrefix(p, q) == Len(p) <= Len(q) /\ \A k \in 1..Len(p) : p[k] = q[k]

\* The callbacks of thread t's current notify, as the listeners called.
SeenListeners(t) == [k \in 1..Len(rseen[t]) |-> rseen[t][k].l]

\* C1: a notify_listeners call in which no listener raises calls exactly
\* the listeners that were registered when it took the lock, each once, in
\* registration order, each with the frame notified; while it runs, the
\* callbacks made so far are the first listeners of that list, in order.
C1_NotifyInRegistrationOrder ==
    \A t \in Threads :
        /\ rpc[t] = "returned" => SeenListeners(t) = rsnap[t]
        /\ rpc[t] = "ntf_loop" => SeenListeners(t) = SubSeq(rsnap[t], 1, ridx[t] - 1)
        /\ rpc[t] \in {"ntf_loop", "returned"} =>
               \A k \in 1..Len(rseen[t]) : rseen[t][k].f = rfrm[t]

C1_Witness ==
    \E t \in Threads :
        /\ rpc[t] = "returned"
        /\ Len(rsnap[t]) = 2
        /\ rsnap[t][1] # rsnap[t][2]

InCritical(t) == rpc[t] \in {"add_body", "rem_body", "ntf_loop"}

\* C2: at most one thread is inside add_listener's, remove_listener's or
\* notify_listeners' critical section, and it is the lock's holder; so while
\* a notify is between its first and last callback the list is the one it
\* found when it took the lock, and no other notify makes a callback.
C2_MutualExclusion ==
    /\ \A t, u \in Threads : InCritical(t) /\ InCritical(u) => t = u
    /\ \A t \in Threads : InCritical(t) => lock = t
    /\ \A t \in Threads : rpc[t] = "ntf_loop" => listeners = rsnap[t]

C2_Witness ==
    \E t, u, v \in Threads :
        /\ rpc[t] = "ntf_loop" /\ Len(rseen[t]) = 1 /\ Len(listeners) = 2
        /\ rpc[u] = "ntf_lock"
        /\ rpc[v] \in {"add_lock", "rem_lock"}

Frames(s) == 1..Len(sims[s].times)

\* C3: the delay simulate() uses for a frame is max(0, timestamp - now), and
\* no listener is called with the frame before that delay has passed: not
\* before the time it was entered for, not before its timestamp when that was
\* in the future, and never before the simulate() call.  (Stated of the
\* latest callback, at the clock it was made: every callback is the latest
\* one in the state it leads to.)
C3_NotBeforeDeadline ==
    /\ \A s \in Sims : \A i \in 1..Len(sims[s].delays) :
           sims[s].delays[i] = Max(0, sims[s].msgs[i] - sims[s].reads[i])
    /\ (cbLog # <<>> /\ IsReplay(cbLog[Len(cbLog)].f)) =>
           LET s == cbLog[Len(cbLog)].f.sim
               i == cbLog[Len(cbLog)].f.i
           IN /\ cbAt >= sims[s].times[i]
              /\ sims[s].msgs[i] > sims[s].reads[i] => cbAt >= sims[s].msgs[i]
              /\ cbAt >= sims[s].callAt

\* A frame scheduled with a positive delay and one scheduled for a past
\* timestamp have both reached a listener.
C3_Witness ==
    \E j, k \in 1..Len(cbLog) :
        LET s == cbLog[k].f.sim
            i == cbLog[k].f.i
            r == cbLog[j].f.sim
            h == cbLog[j].f.i
        IN /\ sims[s].delays[i] > 0
           /\ sims[r].msgs[h] < sims[r].reads[h]

\* C4: within one simulate() call, a frame entered for an earlier time than
\* another reaches every listener before the other does, wherever the two
\* stand in the message list.
C4_DeadlineOrder ==
    \A p, q \in 1..Len(cbLog) :
        LET s == cbLog[p].f.sim
        IN (/\ p < q
            /\ IsReplay(cbLog[p].f) /\ IsReplay(cbLog[q].f)
            /\ cbLog[q].f.sim = s
            /\ cbLog[p].l = cbLog[q].l)
           => sims[s].times[cbLog[p].f.i] <= sims[s].times[cbLog[q].f.i]

\* A listener has seen two frames in the opposite order of the message list.
C4_Witness ==
    \E p, q \in 1..Len(cbLog) :
        /\ p < q
        /\ cbLog[p].f.sim = cbLog[q].f.sim
        /\ cbLog[p].l = cbLog[q].l
        /\ cbLog[p].f.i > cbLog[q].f.i

AllFiredOnce(s) ==
    /\ sims[s].queue = {}
    /\ \A i \in 1..Len(sims[s].msgs) : sims[s].fired[i] = 1

\* C5: no frame is handed to notify_listeners twice, and once the replay
\* thread runs, unless a listener raises, every frame of the list is handed
\* to notify_listeners and the thread ends.
C5_EveryFrameOnce ==
    /\ [](\A s \in Sims : \A i \in 1..Len(sims[s].fired) : sims[s].fired[i] <= 1)
    /\ \A s \in Sims :
           (sims[s].state = "running")
               ~> (SchedDead(s) \/ (sims[s].state = "finished" /\ AllFiredOnce(s)))

\* Two frames entered for the same time have both been delivered.
C5_Witness ==
    \E s \in Sims :
        /\ sims[s].state = "finished"
        /\ Len(sims[s].msgs) = 2
        /\ sims[s].times[1] = sims[s].times[2]
        /\ AllFiredOnce(s)

\* C6: once a stop() of the manager has returned, the replay thread hands no
\* further frame of an earlier simulate() to notify_listeners: what it had not
\* taken off the scheduler's queue by then is never delivered.
C6_NoDispatchAfterStop ==
    [][mgr.stops > 0 =>
          \A s \in Sims : \A i \in 1..Len(sims[s].fired) :
              sims'[s].fired[i] = sims[s].fired[i]]_vars

\* C7: no notifier thread is running on a bus that has been shut down, and
\* no bus is open once run_notifier has returned.
C7_ReaderEndsBeforeRelease ==
    \A b \in BusManagers :
        /\ ~(bm[b].reader = "running" /\ bm[b].bus = "shut")
        /\ bm[b].pc = "returned" => bm[b].bus # "open"

\* C8: CANTelemetryApp.stop raises nothing and sets the stop flag; a second
\* call changes no state; a call before start() leaves the thread unstarted
\* with no connection made or running.  The manager's stop() on a connection
\* that was never started, or is already closed, changes nothing and raises
\* nothing, and every stop() that returns leaves the connection not running
\* with its transport not open.
C8_StopIdempotent ==
    [][/\ stopCalls' # stopCalls =>
            /\ stopEvent'
            /\ appExc' = appExc
            /\ stopEvent => UNCHANGED <<regVars, now, sims, cfg, appPc, appExc,
                                        stopEvent, mgr, loggers, bm, dataVars>>
            /\ appPc = "new" =>
                   /\ appPc' = "new"
                   /\ ~mgr'.made /\ ~mgr'.running /\ mgr'.life = "Disconnected"
       /\ (mgr'.stops # mgr.stops /\ mgr.stopPc = "none") =>
            /\ mgr' = [mgr EXCEPT !.stops = mgr.stops + 1]
            /\ appExc' = appExc
       /\ mgr'.stops # mgr.stops =>
            /\ mgr'.life = (IF mgr.starts = 0 THEN "Disconnected" ELSE "Closed")
            /\ ~mgr'.running
            /\ mgr'.bus # "open"
      ]_vars

\* stop() was called twice, the second time after run() had ended, and run()'s
\* manager.stop() met a connection that was never started.
C8_Witness ==
    /\ stopCalls = 2
    /\ appPc = "done"
    /\ mgr.stops = 1
    /\ mgr.life = "Disconnected"

\* C9: the transport of a manager is never opened after a stop() of that
\* manager has returned.
C9_NoRestart == ~mgr.restarted

NoListenerRegistered ==
    /\ listeners = <<>>
    /\ \A t \in Threads : rpc[t] \notin {"add_lock", "add_body"}

\* What follows every failure of the PEAK transport to open.
OpenFailureReported ==
    /\ appExc # "none"
    /\ mgr.starts = mgr.failedAt
    /\ mgr.kind = "pcan"
    /\ mgr.bus # "open"
    /\ mgr.reader # "recv"
    /\ cbLog = <<>>

\* C10 as stated: when the PEAK transport fails to open, an error is raised,
\* start() is not called again, the manager stays a PEAK one with no open
\* transport, no listener is registered and no listener has got a frame.
C10_NoListenerOnOpenFailure ==
    mgr.failedAt > 0 => (OpenFailureReported /\ NoListenerRegistered)

\* C10: when the PEAK transport fails to open, an error leaves run(), start()
\* is not called again, the manager stays a PEAK one with no open transport
\* and no listener ever gets a frame; when it is the connection test that
\* fails, run() ends at once with RuntimeWarning and no listener registered
\* and no logger made.
C10_OpenFailure ==
    mgr.failedAt > 0 =>
        /\ OpenFailureReported
        /\ mgr.failedAt = 1 =>
               /\ appPc = "failed"
               /\ appExc = "RuntimeWarning"
               /\ NoListenerRegistered
               /\ \A l \in LoggerNames : loggers[l] = "none"

\* The connection test failed and run() has ended.
C10_Witness ==
    /\ mgr.failedAt = 1
    /\ appPc = "failed"
    /\ cfg.interface = "PEAK"

Count(q, x) == Cardinality({k \in 1..Len(q) : q[k] = x})

\* C11: simulate() waits for no deadline: once every message is entered its
\* return is possible whatever the clock and the queue are, and once it has
\* returned its caller can call remove_listener (and add_listener) while
\* events are still queued.
C11_SimulateNonBlocking ==
    \A s \in Sims :
        /\ (sims[s].state = "scheduling" /\ sims[s].at = "read"
                /\ sims[s].k > Len(sims[s].msgs))
               => ENABLED SimStartThread(s)
        /\ (sims[s].state = "running" /\ rpc[sims[s].caller] = "idle")
               => /\ ~InSimulate(sims[s].caller)
                  /\ ENABLED LiveRemove(sims[s].caller)

\* The caller is inside add_listener while a frame waits for its deadline.
C11_Witness ==
    \E s \in Sims :
        /\ sims[s].state = "running"
        /\ \E e \in sims[s].queue : e.time > now
        /\ rpc[sims[s].caller] = "add_body"

\* C12: a delivery of the replay thread calls the listeners that are
\* registered when the delivery takes the lock, each as often as it is in
\* the list then: one added since simulate() was called gets the frame, one
\* removed since does not.
C12_RegistryAtDelivery ==
    \A s \in Sims :
        LET t == SchedThread(s)
        IN rpc[t] = "returned" =>
               \A l \in Listeners :
                   Count(SeenListeners(t), l) = Count(rsnap[t], l)

\* A delivery has reached a listener added after simulate() was called and
\* has not reached one that was registered then and removed since.
C12_Witness ==
    \E s \in Sims : \E a, r \in Listeners :
        LET t == SchedThread(s)
        IN /\ rpc[t] = "returned"
           /\ Count(sims[s].regAtCall, a) = 0 /\ Count(SeenListeners(t), a) = 1
           /\ Count(sims[s].regAtCall, r) = 1 /\ Count(SeenListeners(t), r) = 0

\* C13: when a listener raises inside notify_listeners, the listeners before
\* it in the list have each got the frame once, it has been called once, the
\* listeners after it are not called, and the exception leaves
\* notify_listeners with the lock released; a callback that returned never
\* ends the loop early.
C13_FaultAbortsNotify ==
    \A t \in Threads :
        /\ rpc[t] = "raised" =>
               /\ ridx[t] <= Len(rsnap[t])
               /\ SeenListeners(t) = SubSeq(rsnap[t], 1, ridx[t])
               /\ rsnap[t][ridx[t]] \in FaultyListeners
               /\ \A k \in 1..Len(rseen[t]) : rseen[t][k].f = rfrm[t]
               /\ lock # t
        /\ rpc[t] \in {"ntf_loop", "returned"} => Len(rseen[t]) = ridx[t] - 1

\* The second of two listeners raised, after the first got the frame.
C13_Witness ==
    \E t \in Threads :
        /\ rpc[t] = "raised"
        /\ ridx[t] = 2
        /\ rsnap[t][1] \notin FaultyListeners

\* C14: a remove_listener whose listener is not in the list ends without an
\* error, with the lock released and the list as it was; so whatever is
\* called afterwards meets the registry it would have met without the call.
C14_RemoveMissing ==
    [][\A t \in Threads :
          (rpc[t] = "rem_body" /\ rpc'[t] # "rem_body" /\ ~Contains(listeners, rlis[t]))
              => /\ listeners' = listeners
                 /\ rpc'[t] = "idle"
                 /\ lock' = NoThread]_vars

\* A remove_listener holds the lock, for a listener that is not among the
\* two registered.
C14_Witness ==
    \E t \in Threads :
        /\ rpc[t] = "rem_body"
        /\ Len(listeners) = 2
        /\ ~Contains(listeners, rlis[t])

\* The filters as the query contract reads them: an id list that is given
\* restricts, also when it is empty, and so does a given error flag.
Matches(row, q) ==
    /\ q.white.given => row.id \in q.white.ids
    /\ q.black.given => row.id \notin q.black.ids
    /\ q.error.given => row.error = q.error.val

\* The rows of the table at the query (the table only grows) that match.
Matching(q) == {i \in 1..q.size : Matches(fs.rows[i], q)}

\* The list is made of distinct table rows that match, newest first, and no
\* matching row left out is newer than one returned.
NewestFirst(q) ==
    /\ \A a \in 1..Len(q.idx) : q.idx[a] \in Matching(q)
    /\ \A a, b \in 1..Len(q.idx) :
           a < b => (q.idx[a] # q.idx[b] /\ fs.rows[q.idx[a]].ts >= fs.rows[q.idx[b]].ts)
    /\ \A i \in Matching(q) : (\A a \in 1..Len(q.idx) : q.idx[a] # i) =>
           \A a \in 1..Len(q.idx) : fs.rows[q.idx[a]].ts >= fs.rows[i].ts

\* C15: sqlite_read_via(n, ...) returns min(n, m) messages, m being the
\* number of rows that match the filters: those of largest ts, in
\* non-increasing order of ts.
C15_NewestPrefix ==
    fs.q.made =>
        /\ fs.q.ok
        /\ Len(fs.q.idx) = Min(fs.q.n, Cardinality(Matching(fs.q)))
        /\ NewestFirst(fs.q)

\* C16: with an allow list, a deny list or both (and no error filter), every
\* message returned has its id in the allow list and not in the deny list,
\* and the messages are the newest min(n, m) of the rows that pass both.
C16_AllowDenyAnded ==
    (fs.q.made /\ ~fs.q.error.given) =>
        /\ fs.q.ok
        /\ \A a \in 1..Len(fs.q.idx) :
               /\ fs.q.white.given => fs.rows[fs.q.idx[a]].id \in fs.q.white.ids
               /\ fs.q.black.given => fs.rows[fs.q.idx[a]].id \notin fs.q.black.ids
        /\ Len(fs.q.idx) = Min(fs.q.n, Cardinality(Matching(fs.q)))
        /\ NewestFirst(fs.q)

\* C17: with an error filter the query returns, and returns the newest
\* min(n, m) of the rows whose error column equals the filter and that pass
\* the id filters.
C17_ErrorFilter ==
    (fs.q.made /\ fs.q.error.given) =>
        /\ fs.q.ok
        /\ \A a \in 1..Len(fs.q.idx) : fs.rows[fs.q.idx[a]].error = fs.q.error.val
        /\ Len(fs.q.idx) = Min(fs.q.n, Cardinality(Matching(fs.q)))
        /\ NewestFirst(fs.q)

\* C18: message_deserializer(message_serializer(msg)) equals msg in every
\* field, for every message, also one with no data bytes and a remote frame;
\* in the dictionary the data is the list of the message's bytes, in order,
\* each an integer in 0..255.
C18_FrameRoundTrip ==
    /\ codec.stage \in {"dict", "back"} =>
           /\ codec.dict.data.kind = "list"
           /\ codec.dict.data.v = codec.msg.data.v
           /\ \A k \in 1..Len(codec.dict.data.v) : codec.dict.data.v[k] \in 0..255
    /\ codec.stage = "back" =>
           /\ codec.back.timestamp = codec.msg.timestamp
           /\ codec.back.arbitration_id = codec.msg.arbitration_id
           /\ codec.back.is_extended_id = codec.msg.is_extended_id
           /\ codec.back.channel = codec.msg.channel
           /\ codec.back.dlc = codec.msg.dlc
           /\ codec.back.data = codec.msg.data
           /\ codec.back.is_error_frame = codec.msg.is_error_frame
           /\ codec.back.is_remote_frame = codec.msg.is_remote_frame
           /\ codec.back.is_fd = codec.msg.is_fd
           /\ codec.back.bitrate_switch = codec.msg.bitrate_switch
           /\ codec.back.error_state_indicator = codec.msg.error_state_indicator

\* A remote frame with a dlc and no data has been read back.
C18_Witness ==
    /\ codec.stage = "back"
    /\ codec.msg.is_remote_frame
    /\ codec.msg.dlc.n = 2
    /\ codec.msg.data.v = <<>>

\* C19: from_json(to_json(cfg)) has the same dbc_file_path, interface,
\* bit_rate, hardware_filters (None or a list), base_log_file_path,
\* csv_logging, ascii_logging and the same sim_messages in the same order,
\* for every interface; in the JSON the interface is its symbolic name.
C19_ConfigRoundTrip ==
    /\ conf.stage \in {"json", "back"} =>
           /\ conf.dict.interface \in {"SIM", "VIRTUAL", "PEAK"}
           /\ conf.dict.interface = conf.app.interface.name
    /\ conf.stage = "back" =>
           /\ conf.back.dbc_file_path = conf.app.dbc_file_path
           /\ conf.back.interface = conf.app.interface
           /\ conf.back.bit_rate = conf.app.bit_rate
           /\ conf.back.hardware_filters = conf.app.hardware_filters
           /\ conf.back.base_log_file_path = conf.app.base_log_file_path
           /\ conf.back.csv_logging = conf.app.csv_logging
           /\ conf.back.ascii_logging = conf.app.ascii_logging
           /\ conf.back.sim_messages = conf.app.sim_messages

\* A SIM configuration without hardware filters and with two different
\* messages has been read back.
C19_Witness ==
    /\ conf.stage = "back"
    /\ conf.app.interface.name = "SIM"
    /\ conf.app.hardware_filters = Null
    /\ Len(conf.app.sim_messages) = 2
    /\ conf.app.sim_messages[1] # conf.app.sim_messages[2]
    /\ conf.app.sim_messages[2].is_remote_frame

\* name = some characters, then s, then some characters
Pieces ==
    UNION {{SubSeq(n, i, j) : i \in 1..(Len(n) + 1), j \in 0..Len(n)} : n \in Names}
NameContains(name, s) == \E pre, suf \in Pieces : name = pre \o s \o suf

\* The ids of the definitions whose name contains s, letter case included.
IdsMatching(s) ==
    {dbc.frames[j].id : j \in {k \in 1..Len(dbc.frames) :
                                  NameContains(dbc.frames[k].name, s)}}

\* C20: after add_filters(filters, s) on an empty list the list holds
\* exactly the ids of the definitions whose name contains s (case matters),
\* one entry for each such definition; clear_filters leaves the list empty
\* whatever it held, so a build after a clear holds the ids matching its
\* string only; further builds add the ids matching their strings.
C20_FilterBuilder ==
    /\ dbc.calls = <<>> => dbc.filters = <<>>
    /\ Len(dbc.calls) = 1 =>
           /\ {dbc.filters[k] : k \in 1..Len(dbc.filters)} = IdsMatching(dbc.calls[1])
           /\ Len(dbc.filters) =
                  Cardinality({k \in 1..Len(dbc.frames) :
                                  NameContains(dbc.frames[k].name, dbc.calls[1])})
    /\ {dbc.filters[k] : k \in 1..Len(dbc.filters)} =
           UNION {IdsMatching(dbc.calls[c]) : c \in 1..Len(dbc.calls)}

\* After a clear of a list that held ids, a build for "a" has taken the id
\* of a definition named with "a" and left out the one named with "A" only.
C20_Witness ==
    /\ dbc.cleared
    /\ dbc.calls = << <<"a">> >>
    /\ Len(dbc.frames) = 2
    /\ dbc.frames[1].name = <<"A">>
    /\ dbc.frames[2].name = <<"A", "a">>
    /\ dbc.frames[1].id # dbc.frames[2].id
    /\ dbc.filters = <<dbc.frames[2].id>>

\* The replay thread of call s has ended with an exception of a listener
\* while frame i of the call, entered for a later time than the frame in
\* delivery, is still to be delivered.
FaultBefore(s, i) ==
    /\ SchedDead(s)
    /\ i <= Len(sims[s].times)
    /\ sims[s].times[i] > sims[s].times[rfrm[SchedThread(s)].i]

\* C21: when a listener raises during the delivery of a replayed frame,
\* every frame of the same simulate() call that was entered for a later time
\* is still handed to notify_listeners.
C21_FaultOnlyThatFrame ==
    \A s \in Sims : \A i \in 1..MaxMsgs :
        FaultBefore(s, i) ~> (i <= Len(sims[s].fired) /\ sims[s].fired[i] >= 1)

\* The thread is inside the with block of add_listener, remove_listener or
\* notify_listeners.
InWithBlock(t) == rpc[t] \in {"add_body", "rem_body", "ntf_loop"}

\* C22: the lock is held only by a thread inside the with block of
\* add_listener, remove_listener or notify_listeners: a thread whose call has
\* returned, also after a remove that found nothing, or whose notify a
\* listener's exception has left, does not hold it; when no thread is inside
\* a with block the lock is free, and a thread waiting for it can take it.
C22_LockOnlyInside ==
    /\ \A t \in Threads : lock = t => InWithBlock(t)
    /\ lock \in Threads \cup {NoThread}
    /\ (\A t \in Threads : ~InWithBlock(t)) =>
           /\ lock = NoThread
           /\ \A t \in Threads :
                  /\ rpc[t] = "add_lock" => ENABLED AddAcquire(t)
                  /\ rpc[t] = "rem_lock" => ENABLED RemoveAcquire(t)
                  /\ rpc[t] = "ntf_lock" => ENABLED NotifyAcquire(t)

\* A listener's exception has left one thread's notify_listeners, and
\* another thread has taken the lock since and is adding a listener.
C22_Witness ==
    \E t, u \in Threads :
        /\ t # u
        /\ rpc[t] = "raised"
        /\ lock = u
        /\ rpc[u] = "add_body"

\* The thread waits for the lock.
AtLock(t) == rpc[t] \in {"add_lock", "rem_lock", "ntf_lock"}

\* C23: a thread whose listener, called by notify_listeners, calls
\* add_listener, remove_listener or notify_listeners of the same registry
\* holds the lock and waits for it: it stays where it is in every step, so
\* its notify_listeners never returns, the lock is never released, and no
\* thread that waits for the lock ever gets it.
C23_ReentryBlocksForever ==
    [][\A t \in Threads : InCallback(t) =>
          /\ lock = t /\ lock' = t
          /\ rpc'[t] = rpc[t]
          /\ listeners' = listeners
          /\ \A u \in Threads : AtLock(u) => rpc'[u] = rpc[u]]_vars

\* A listener removes itself from inside its callback while another thread
\* has called notify_listeners and a listener is being added.
C23_Witness ==
    /\ InCallback(CallerThread)
    /\ rpc[CallerThread] = "rem_lock"
    /\ rpc[OtherThread] \in {"ntf_lock", "add_lock"}
    /\ rseen[CallerThread] # <<>>
    /\ lock = CallerThread

\* The ids of the messages the query returned.
ReturnedIds(q) == {fs.rows[q.idx[a]].id : a \in 1..Len(q.idx)}

\* C24: every id list that sqlite_read_via is given is applied, an empty one
\* too: with an allow list every message returned has its id in the list,
\* so that an empty allow list returns no message; with a deny list no
\* message returned has its id in the list.
C24_SuppliedFilterApplied ==
    (fs.q.made /\ fs.q.ok) =>
        /\ (fs.q.white.given /\ fs.q.white.ids = {}) => fs.q.idx = <<>>
        /\ fs.q.white.given => ReturnedIds(fs.q) \subseteq fs.q.white.ids
        /\ fs.q.black.given => ReturnedIds(fs.q) \cap fs.q.black.ids = {}

\* C25: no replayed or bus frame is handed to a logger that run() has
\* stopped: every callback is made to a listener whose logger, if it is one,
\* has not been stopped yet.
C25_NoFrameToStoppedLogger ==
    [][cbLog' # cbLog =>
          LET cb == cbLog'[Len(cbLog')]
          IN cb.l \in LoggerNames => loggers[cb.l] # "stopped"]_vars

\* The manager.stop() calls run() has made when it reaches its loop: that
\* of the connection test.
StopsBeforeLoop == IF cfg.interface = "PEAK" THEN 1 ELSE 0

\* The loggers run() made for the configuration have each been stopped.
LoggersStopped ==
    /\ loggers["sqlite"] = "stopped"
    /\ loggers["csv"] = (IF cfg.csv THEN "stopped" ELSE "none")
    /\ loggers["ascii"] = (IF cfg.ascii THEN "stopped" ELSE "none")

\* C26: once run() is in its wait loop and stop() has been called, before
\* or after start(), run() leaves the loop and returns, in every mode; from
\* the loop to its return it stops each logger it made once (a logger is
\* stopped only from open) and calls manager.stop() once, which returns; the
\* thread that has ended stays ended.
C26_StopTerminates ==
    /\ (appPc = "loop" /\ stopEvent) ~> (appPc = "done")
    /\ [](appPc = "loop" => mgr.stops = StopsBeforeLoop)
    /\ [](appPc = "done" =>
             /\ stopEvent
             /\ LoggersStopped
             /\ mgr.stops = StopsBeforeLoop + 1
             /\ mgr.stopPc = "none" /\ ~mgr.running)
    /\ [][/\ \A l \in LoggerNames :
               (loggers'[l] = "stopped" /\ loggers[l] # "stopped") => loggers[l] = "open"
          /\ \A l \in LoggerNames : loggers[l] = "stopped" => loggers'[l] = "stopped"
          /\ appPc = "done" => appPc' = "done"]_vars

\* In PEAK mode with every logger enabled, run() has returned after stop().
C26_Witness ==
    /\ appPc = "done"
    /\ cfg.interface = "PEAK"
    /\ cfg.csv /\ cfg.ascii
    /\ LoggersStopped
    /\ stopCalls >= 1
    /\ mgr.stops = 2

====
